---- MODULE Spec2Model ----
(***************************************************************************)
(* Client-side session lifecycle of the dbscst frontend: the persisted     *)
(* session (localStorage), the HomePage mount effects (validity check and  *)
(* expiry timer), the Introduction sign-up / login handlers and the        *)
(* email-verification polling loop, the conversation of the Project        *)
(* screen (generate-schema turns), the push subscription of useWebSocket,  *)
(* and the edit buffer and the commits of ProjectPage.                     *)
(*                                                                         *)
(* Spec is the whole client; PollSpec (registration flow and poller),      *)
(* SessionSpec (session lifecycle on all screens), ConvSpec (conversation),*)
(* SocketSpec (push subscription), EditSpec (edits and commits of          *)
(* ProjectPage) and OrderSpec (edits next to a push subscription) are its  *)
(* restrictions to the handlers of one concern; PollFairSpec and           *)
(* ConvFairSpec add fairness.                                              *)
(*                                                                         *)
(* Time is counted in abstract units; TTL is the session lifetime          *)
(* (30 * 60 * 1000 ms in the source) in those units.  The clock starts at  *)
(* StartTime so that stored expiry strings have one and two digits.        *)
(***************************************************************************)
EXTENDS Integers, Sequences, FiniteSets

\* ------------------------------------------------------------------ bounds
MaxTime == 10
\* the clock stops advancing at MaxTime
MaxInflight == 2
\* at most this many poll login requests are outstanding together
MaxFailures == 1
\* the count of failed poll attempts saturates here
MaxUpdates == 2
\* at most this many update-project-schemas requests are outstanding together
MaxGen == 2
\* at most this many generate-schema requests are outstanding together, and
\* at most this many display timeouts of successful turns are pending together
MaxSockets == 3
\* at most this many WebSocket objects are created

\* --------------------------------------------------------------- constants
StartTime == 8
TTL == 2

Null == "null"
NoTimer == -1
Tokens == {"t1"}
Routes == {"home", "project", "projectPage"}
Closed == "closed"
Usernames == {Null, "anonymous", "user"}
\* what the user may have typed into the input of Project
Inputs == {"", " ", "a"}
\* what the user may have typed into the email input of Introduction, as
\* sequences of characters: nothing, a@b, a@b.c, d@b.c
NoEmail == << >>
UserEmail == <<"a", "@", "b", ".", "c">>
Emails ==
    {NoEmail, <<"a", "@", "b">>, UserEmail, <<"d", "@", "b", ".", "c">>}
\* what the user may have typed into the password inputs, as sequences of
\* characters ("a" lower case, "A" upper case, "1" digit, "!" special):
\* nothing, aA1!, aA1!aA1!, aAa!aAa!, aA1!aA1! followed by a blank
NoPassword == << >>
Passwords ==
    {NoPassword,
     <<"a", "A", "1", "!">>,
     <<"a", "A", "1", "!", "a", "A", "1", "!">>,
     <<"a", "A", "a", "!", "a", "A", "a", "!">>,
     <<"a", "A", "1", "!", "a", "A", "1", "!", " ">>}
\* conversation ids and table lists a generate-schema response may carry
ConversationIds == {"c1", "c2"}
TableLists == {<<>>, <<"users">>, <<"orders">>, <<"users", "orders">>}
\* project identities given to useWebSocket
Titles == {"p1", "p2"}
\* project ids of the route /projects/:projectId
ProjectIds == {"p1", "p2"}

VARIABLES
    now,            \* Date.now()
    ls,             \* localStorage: access_token, isLoggedIn, token_expiry, username
    route,          \* the route the router displays
    reloading,      \* window.location.reload() was called, the page is not yet unloaded
    visited,        \* routes with an entry of this document in the session history
    \* HomePage
    introComplete, expiryTimer, navTimer, projects, listInflight,
    \* Introduction
    showAuthOptions, isWaitingForVerification, showCheckmark, error,
    isLoading, isLogin, step, introReq, introReqLive,
    email,          \* the value of the email input
    introReqEmail,  \* the email the request in flight was called with
    freeEmails,     \* emails check-email found free for this Introduction
    \* verification poller (closure of handleSignUpSubmit)
    pollingInterval, pollerHost, polls, checkTimers, loginTimer,
    \* server
    registered, verified,
    \* Project (new-project) and ProjectPage
    genInflight, projLoading, pageState, updatesInflight,
    \* ProjectPage: the route parameter, the project ids with a history entry
    \* of this document, the get-project requests outstanding, and the edit
    \* state
    projectId, visitedProjects, fetches, project, updatedSchemas, editing,
    editedSchemas,
    unsent,         \* ids of the schemas with a saved edit no request has carried
    \* Project: the conversation
    userInput, userPrompt, showWelcome, schema, conversationId, showSchema,
    displayTimers,
    \* useWebSocket
    projectTitle, tables, isConnected, sockets,
    lastMessage,    \* the latest message handled by the mounted hook
    \* history
    verifiedCount, completeCount, pollFailures, sent, teardown

vars == <<now, ls, route, reloading, visited,
          introComplete, expiryTimer, navTimer, projects, listInflight,
          showAuthOptions, isWaitingForVerification, showCheckmark, error,
          isLoading, isLogin, step, introReq, introReqLive,
          email, introReqEmail, freeEmails,
          pollingInterval, pollerHost, polls, checkTimers, loginTimer,
          registered, verified,
          genInflight, projLoading, pageState, updatesInflight,
          projectId, visitedProjects, fetches, project, updatedSchemas,
          editing, editedSchemas, unsent,
          userInput, userPrompt, showWelcome, schema, conversationId,
          showSchema, displayTimers,
          projectTitle, tables, isConnected, sockets, lastMessage,
          verifiedCount, completeCount, pollFailures, sent, teardown>>

homeVars == <<introComplete, expiryTimer, navTimer, projects, listInflight>>
formVars == <<email, introReqEmail, freeEmails>>
introVars == <<showAuthOptions, isWaitingForVerification, showCheckmark, error,
               isLoading, isLogin, step, introReq, introReqLive, formVars>>
pollVars == <<pollingInterval, pollerHost, polls, checkTimers>>
serverVars == <<registered, verified>>
screenVars == <<genInflight, projLoading, pageState, updatesInflight>>
histVars == <<verifiedCount, completeCount, pollFailures>>
convVars == <<userInput, userPrompt, showWelcome, schema, conversationId,
              showSchema, displayTimers>>
editVars == <<projectId, visitedProjects, fetches, project, updatedSchemas,
              editing, editedSchemas, unsent>>
wsVars == <<projectTitle, tables, isConnected, sockets, lastMessage>>

\* ------------------------------------------------- number <-> string
RECURSIVE ToString(_)
ToString(n) == IF n < 10 THEN <<n>> ELSE Append(ToString(n \div 10), n % 10)

RECURSIVE ParseInt(_)
ParseInt(s) == IF Len(s) = 0 THEN 0
               ELSE 10 * ParseInt(SubSeq(s, 1, Len(s) - 1)) + s[Len(s)]

\* ------------------------------------------------------- localStorage
NoExpiry == <<>>
\* getItem("token_expiry") of a missing item (falsy, like the empty string)

EmptyStorage == [access_token |-> Null, isLoggedIn |-> Null,
                 token_expiry |-> NoExpiry, username |-> Null]

\* SetSession with an expiry of now instead of now + ttl
SetSessionNoTtl(s, tok, t) ==
    [s EXCEPT !.access_token = tok, !.isLoggedIn = "true",
              !.token_expiry = ToString(t)]

\* handleLoginSubmit: the three setItem calls after a successful login
SetSession(s, tok, t) ==
    [s EXCEPT !.access_token = tok, !.isLoggedIn = "true",
              !.token_expiry = ToString(t + TTL)]

\* the three removeItem calls of the expiry effect (timer and immediate branch)
RemoveSession(s) ==
    [s EXCEPT !.access_token = Null, !.isLoggedIn = Null,
              !.token_expiry = NoExpiry]

\* the four removeItem calls of the session check effect
RemoveAll(s) ==
    [s EXCEPT !.access_token = Null, !.isLoggedIn = Null,
              !.token_expiry = NoExpiry, !.username = Null]

\* TokenValid without the comparison with the clock
TokenValidNoExpiry(s, t) ==
    /\ s.access_token # Null
    /\ s.isLoggedIn = "true"
    /\ s.token_expiry # NoExpiry

\* the condition of the else-if branch of the session check effect
TokenValid(s, t) ==
    /\ s.access_token # Null
    /\ s.isLoggedIn = "true"
    /\ s.token_expiry # NoExpiry
    /\ t < ParseInt(s.token_expiry)

\* session check effect: the value of introComplete it leaves
CheckIntroComplete(s, t) == s.username = "anonymous" \/ TokenValid(s, t)

\* session check effect: whether it calls fetchUserProjects
CheckFetches(s, t) == s.username # "anonymous" /\ TokenValid(s, t)

\* CheckStorage without the removal of the items of an invalid session
CheckStorageKeeps(s, t) == s

\* session check effect: localStorage it leaves
CheckStorage(s, t) ==
    IF s.username = "anonymous" \/ TokenValid(s, t) THEN s ELSE RemoveAll(s)

\* expiry effect: the timer it schedules (the time at which it is due)
ExpiryTimerOf(s, t) ==
    IF s.token_expiry # NoExpiry /\ ParseInt(s.token_expiry) - t > 0
    THEN ParseInt(s.token_expiry) ELSE NoTimer

\* expiry effect: localStorage it leaves
ExpiryStorage(s, t) ==
    IF s.token_expiry # NoExpiry /\ ~(ParseInt(s.token_expiry) - t > 0)
    THEN RemoveSession(s) ELSE s

\* a request carrying "Bearer <token>" read from localStorage at time t
\* the JSON body of a generate-schema request (none for the other requests)
NoBody ==
    [project_description |-> Null, conversation_id |-> Null,
     user_feedback |-> Null]

Req(op, s, t) ==
    [op |-> op, tok |-> s.access_token,
     expired |-> s.token_expiry # NoExpiry /\ t >= ParseInt(s.token_expiry),
     body |-> NoBody, schemas |-> << >>, alert |-> FALSE, save |-> "none"]

\* no request is sent (schemas: the body of an update-project-schemas
\* request; alert: the step showed an alert; save: the branch handleSave
\* took in the step)
NoReq ==
    [op |-> "none", tok |-> Null, expired |-> FALSE, body |-> NoBody,
     schemas |-> << >>, alert |-> FALSE, save |-> "none"]

\* the removeItem calls of one branch ("check": the else branch of the session
\* check effect, "immediate" and "timer": the branches of the expiry effect),
\* with the storage they found
Teardown(branch, s) == [by |-> branch, before |-> s]

NoTeardown == [by |-> "none", before |-> EmptyStorage]

\* ------------------------------------------------------- component state
\* useState initial values of Introduction
IntroInitial ==
    /\ showAuthOptions' = TRUE
    /\ isWaitingForVerification' = FALSE
    /\ showCheckmark' = FALSE
    /\ error' = ""
    /\ isLoading' = FALSE
    /\ isLogin' = FALSE
    /\ step' = "email"
    /\ email' = NoEmail
    /\ freeEmails' = {}

\* schema state of Project: null, or the ProjectSchema of a response
NoSchema == <<>>
SomeSchema(data) == <<data>>

\* useState initial values of Project
ProjectInitial ==
    /\ userInput' = ""
    /\ userPrompt' = ""
    /\ showWelcome' = TRUE
    /\ schema' = NoSchema
    /\ conversationId' = Null
    /\ showSchema' = FALSE
    /\ displayTimers' = 0

\* useWebSocket: no message was handled since the hook mounted
NoMessage == [seen |-> FALSE, data |-> [isNull |-> TRUE, entries |-> <<>>]]

\* ProjectPage: strings are kept as the sequence of their "-"-free parts
\* ("a-b" is <<"a", "b">>, "" is <<"">>), which is what split("-") returns
\*
\* the schemas get-project returns for a project (of a field only name and
\* type are kept; its description is edited through the same code as its
\* type). What the server stores is not modelled: the response is the same
\* list after a commit as before it.
ServerSchemas(p) ==
    IF p = "p1"
    THEN << [id |-> "s1", name |-> <<"users">>, description |-> <<"d">>,
             fields |-> << [name |-> <<"a">>, type |-> <<"int">>],
                           [name |-> <<"a", "b">>, type |-> <<"text">>] >>],
            [id |-> "s2", name |-> <<"orders">>, description |-> <<"">>,
             fields |-> << >>] >>
    ELSE << [id |-> "s3", name |-> <<"items">>, description |-> <<"">>,
             fields |-> << >>] >>

SchemaIds == {"s1", "s2", "s3"}

\* what the user may type into the input of an edit
Typed == {<<"">>, <<" ">>, <<"v">>, <<"users">>}

\* useState initial value of editing
NoEditing ==
    [open |-> FALSE, schemaId |-> "none", field |-> <<"">>, value |-> <<"">>,
     oldValue |-> <<"">>]

\* update-project-schemas requests outstanding, by the schema whose Update
\* button sent them; "orphan": sent by a ProjectPage that has unmounted
NoUpdates == [k \in SchemaIds \cup {"orphan"} |-> 0]

RECURSIVE Sum(_, _)
Sum(f, S) ==
    IF S = {} THEN 0
    ELSE LET k == CHOOSE x \in S : TRUE IN f[k] + Sum(f, S \ {k})

UpdatesOutstanding == Sum(updatesInflight, DOMAIN updatesInflight)

\* the requests of an unmounting ProjectPage: their responses still run
\* window.location.reload(), their setters do nothing
OrphanUpdates(u) ==
    [k \in DOMAIN u |->
        IF k = "orphan" THEN Sum(u, DOMAIN u) ELSE 0]

\* useState initial values of ProjectPage
ProjectPageInitial ==
    /\ project' = "none"
    /\ updatedSchemas' = << >>
    /\ editing' = NoEditing
    /\ editedSchemas' = {}
    /\ unsent' = {}

NoPolls == [pending |-> 0, ok |-> 0, rej |-> 0]
Outstanding(p) == p.pending + p.ok + p.rej

\* the router displays route r: the components of the old route unmount
\* (HomePage's expiry effect cleanup clears its timeout), the component of r
\* mounts with fresh state and runs its mount effects
MountRoute(r) ==
    /\ route' = r
    /\ IntroInitial
    /\ projects' = FALSE
    /\ genInflight' = 0
    /\ projLoading' = FALSE
    /\ ProjectInitial
    /\ ProjectPageInitial
    /\ IF r = "projectPage"
       THEN /\ \E p \in ProjectIds : projectId' = p
            /\ fetches' = {projectId'}
       ELSE /\ projectId' = "none"
            /\ fetches' = {}
    /\ introReqLive' = FALSE
    /\ IF r = "home"
       THEN /\ introComplete' = CheckIntroComplete(ls, now)
            /\ listInflight' = CheckFetches(ls, now)
            /\ ls' = ExpiryStorage(CheckStorage(ls, now), now)
            /\ expiryTimer' = ExpiryTimerOf(CheckStorage(ls, now), now)
            /\ pageState' = "none"
            /\ teardown' =
                 IF ~CheckIntroComplete(ls, now)
                 THEN Teardown("check", ls)
                 ELSE IF ExpiryStorage(ls, now) # ls
                 THEN Teardown("immediate", ls)
                 ELSE NoTeardown
            /\ sent' = IF CheckFetches(ls, now) THEN Req("list", ls, now)
                       ELSE NoReq
       ELSE /\ introComplete' = FALSE
            /\ listInflight' = FALSE
            /\ ls' = ls
            /\ expiryTimer' = NoTimer
            /\ pageState' = IF r = "projectPage" THEN "loading" ELSE "none"
            /\ teardown' = NoTeardown
            /\ sent' = IF r = "projectPage" THEN Req("get", ls, now)
                       ELSE NoReq

\* what an in-document route change does to the closures of the old screen
Orphan(h) == IF h = "none" THEN "none" ELSE "gone"

\* ------------------------------------------------------------------ Init
\* the browser holds the persisted items of an earlier run (none, or a whole
\* session, with or without the sentinel identity); no page is open yet
StoredSessions ==
    {EmptyStorage} \cup
    {[access_token |-> "t1", isLoggedIn |-> "true",
      token_expiry |-> ToString(e), username |-> Null] :
        e \in {StartTime, StartTime + 1}}

Init ==
    /\ now = StartTime
    /\ \E s \in StoredSessions, u \in Usernames : ls = [s EXCEPT !.username = u]
    /\ route = Closed
    /\ reloading = FALSE
    /\ visited = {}
    /\ introComplete = FALSE
    /\ expiryTimer = NoTimer
    /\ navTimer = FALSE
    /\ projects = FALSE
    /\ listInflight = FALSE
    /\ showAuthOptions = TRUE
    /\ isWaitingForVerification = FALSE
    /\ showCheckmark = FALSE
    /\ error = ""
    /\ isLoading = FALSE
    /\ isLogin = FALSE
    /\ step = "email"
    /\ introReq = "none"
    /\ introReqLive = FALSE
    /\ email = NoEmail
    /\ introReqEmail = NoEmail
    /\ freeEmails = {}
    /\ pollingInterval = FALSE
    /\ pollerHost = "none"
    /\ polls = NoPolls
    /\ checkTimers = 0
    /\ loginTimer = "none"
    /\ registered = FALSE
    /\ verified = FALSE
    /\ genInflight = 0
    /\ projLoading = FALSE
    /\ userInput = ""
    /\ userPrompt = ""
    /\ showWelcome = TRUE
    /\ schema = NoSchema
    /\ conversationId = Null
    /\ showSchema = FALSE
    /\ displayTimers = 0
    /\ projectTitle = "none"
    /\ tables = <<>>
    /\ isConnected = FALSE
    /\ sockets = <<>>
    /\ lastMessage = NoMessage
    /\ pageState = "none"
    /\ updatesInflight = NoUpdates
    /\ projectId = "none"
    /\ visitedProjects = {}
    /\ fetches = {}
    /\ project = "none"
    /\ updatedSchemas = << >>
    /\ editing = NoEditing
    /\ editedSchemas = {}
    /\ unsent = {}
    /\ verifiedCount = 0
    /\ completeCount = 0
    /\ pollFailures = 0
    /\ sent = NoReq
    /\ teardown = NoTeardown

\* ------------------------------------------------------- clock and pages
Tick ==
    /\ now < MaxTime
    /\ now' = now + 1
    /\ sent' = NoReq
    /\ teardown' = NoTeardown
    /\ UNCHANGED <<ls, route, reloading, visited, editVars, homeVars, introVars, pollVars,
                   loginTimer, serverVars, screenVars, histVars, convVars,
                   wsVars>>

\* a document load (first visit, refresh, or the load that completes
\* window.location.reload()): every timer, request and component of the old
\* document is gone; the route's component mounts
PageLoad(r) ==
    /\ reloading => r = route
    /\ MountRoute(r)
    /\ (reloading /\ r = "projectPage") => projectId' = projectId
    /\ visited' = {r}
    /\ visitedProjects' = {projectId'} \ {"none"}
    /\ reloading' = FALSE
    /\ navTimer' = FALSE
    /\ introReq' = "none"
    /\ introReqEmail' = NoEmail
    /\ pollingInterval' = FALSE
    /\ pollerHost' = "none"
    /\ polls' = NoPolls
    /\ checkTimers' = 0
    /\ loginTimer' = "none"
    /\ updatesInflight' = NoUpdates
    /\ verifiedCount' = 0
    /\ completeCount' = 0
    /\ pollFailures' = 0
    /\ UNCHANGED <<now, serverVars, wsVars>>

\* navigate(...) or a history traversal inside the document
Navigate(r) ==
    /\ MountRoute(r)
    /\ visited' = visited \cup {r}
    /\ visitedProjects' = visitedProjects \cup ({projectId'} \ {"none"})
    /\ updatesInflight' = OrphanUpdates(updatesInflight)
    /\ pollerHost' = Orphan(pollerHost)
    /\ loginTimer' = Orphan(loginTimer)
    /\ UNCHANGED <<now, reloading, navTimer, introReq, introReqEmail, pollingInterval, polls,
                   checkTimers, serverVars, histVars, wsVars>>

Interactive == route \in Routes /\ ~reloading

\* the browser's back / forward buttons
HistoryNavigate(r) ==
    /\ Interactive
    /\ r \in visited \ {route}
    /\ Navigate(r)
    /\ r = "projectPage" => projectId' \in visitedProjects

\* the browser's history menu, or history.go(n), from one /projects/:projectId
\* entry of this document to another: the router keeps the ProjectPage
\* instance and its state, useParams yields the other id, and the effect on
\* [projectId] runs fetchProject again
HistoryNavigateProject(p) ==
    /\ Interactive
    /\ route = "projectPage"
    /\ p \in visitedProjects \ {projectId}
    /\ projectId' = p
    /\ fetches' = fetches \cup {p}
    /\ sent' = Req("get", ls, now)
    /\ teardown' = NoTeardown
    /\ UNCHANGED <<now, ls, route, reloading, visited, visitedProjects,
                   project, updatedSchemas, editing, editedSchemas, unsent,
                   homeVars, introVars, pollVars, loginTimer, serverVars,
                   screenVars, histVars, convVars, wsVars>>

\* Header: handleLogoClick
HandleLogoClick ==
    /\ Interactive
    /\ route \in {"project", "projectPage"}
    /\ Navigate("home")

\* HomePage: handleImageClick (the image is replaced by a spinner meanwhile)
HandleImageClick ==
    /\ Interactive
    /\ route = "home" /\ introComplete /\ ~navTimer
    /\ navTimer' = TRUE
    /\ sent' = NoReq
    /\ teardown' = NoTeardown
    /\ UNCHANGED <<now, ls, route, reloading, visited, editVars, introComplete, expiryTimer,
                   projects, listInflight, introVars, pollVars, loginTimer,
                   serverVars, screenVars, histVars, convVars, wsVars>>

\* HomePage: the 2000 ms timeout of handleImageClick
NavTimerFire ==
    /\ navTimer
    /\ navTimer' = FALSE
    /\ IF route = "project"
       THEN /\ sent' = NoReq
            /\ teardown' = NoTeardown
            /\ UNCHANGED <<now, ls, route, reloading, visited, editVars, introComplete,
                           expiryTimer, projects, listInflight, introVars,
                           pollVars, loginTimer, serverVars, screenVars,
                           convVars, wsVars,
                           histVars>>
       ELSE /\ MountRoute("project")
            /\ visited' = visited \cup {"project"}
            /\ visitedProjects' = visitedProjects
            /\ updatesInflight' = OrphanUpdates(updatesInflight)
            /\ pollerHost' = Orphan(pollerHost)
            /\ loginTimer' = Orphan(loginTimer)
            /\ UNCHANGED <<now, reloading, introReq, introReqEmail, pollingInterval, polls,
                           checkTimers, serverVars, histVars, wsVars>>

\* HomePage: click on a listed project
ProjectClick ==
    /\ Interactive
    /\ route = "home" /\ introComplete /\ projects
    /\ Navigate("projectPage")

\* HomePage: fetchUserProjects, the response
UserProjectsOk(nonEmpty) ==
    /\ listInflight
    /\ listInflight' = FALSE
    /\ projects' = nonEmpty
    /\ sent' = NoReq
    /\ teardown' = NoTeardown
    /\ UNCHANGED <<now, ls, route, reloading, visited, editVars, introComplete, expiryTimer,
                   navTimer, introVars, pollVars, loginTimer, serverVars,
                   screenVars, histVars, convVars, wsVars>>

UserProjectsFail ==
    /\ listInflight
    /\ listInflight' = FALSE
    /\ sent' = NoReq
    /\ teardown' = NoTeardown
    /\ UNCHANGED <<now, ls, route, reloading, visited, editVars, introComplete, expiryTimer,
                   navTimer, projects, introVars, pollVars, loginTimer, serverVars,
                   screenVars, histVars, convVars, wsVars>>

\* HomePage: the timeout scheduled by the expiry effect
ExpiryTimerFire ==
    /\ expiryTimer # NoTimer
    /\ now >= expiryTimer
    /\ expiryTimer' = NoTimer
    /\ ls' = RemoveSession(ls)
    /\ introComplete' = FALSE
    /\ teardown' = Teardown("timer", ls)
    /\ sent' = NoReq
    /\ UNCHANGED <<now, route, reloading, visited, editVars, navTimer, projects,
                   listInflight, introVars, pollVars, loginTimer, serverVars,
                   screenVars, histVars, convVars, wsVars>>

\* ------------------------------------------------------------ Introduction
\* the form is rendered and not hidden
FormShown ==
    /\ Interactive
    /\ route = "home" /\ ~introComplete
    /\ showAuthOptions /\ ~isWaitingForVerification

\* ValidateEmail when the pattern asks for no dot after the @
ValidateEmailNoDot(s) ==
    \E i \in 1..Len(s) :
       /\ 1 < i /\ i < Len(s)
       /\ s[i] = "@"
       /\ \A k \in (1..Len(s)) \ {i} : s[k] \notin {"@", " "}

\* validateEmail: /^[^\s@]+@[^\s@]+\.[^\s@]+$/ matches s
ValidateEmail(s) ==
    \E i, j \in 1..Len(s) :
       /\ 1 < i /\ i + 1 < j /\ j < Len(s)
       /\ s[i] = "@" /\ s[j] = "."
       /\ \A k \in (1..Len(s)) \ {i} : s[k] \notin {"@", " "}

\* validatePassword: /^(?=.*[a-z])(?=.*[A-Z])(?=.*\d)(?=.*[!@#$%^&*])
\* [A-Za-z\d!@#$%^&*]{8,}$/ matches s
ValidatePassword(s) ==
    /\ Len(s) >= 8
    /\ \A k \in 1..Len(s) : s[k] \in {"a", "A", "1", "!"}
    /\ \A ch \in {"a", "A", "1", "!"} : \E k \in 1..Len(s) : s[k] = ch

\* the email input (hidden at the details step): onChange
SetEmail(v) ==
    /\ FormShown
    /\ step # "details"
    /\ v # email
    /\ email' = v
    /\ sent' = NoReq
    /\ teardown' = NoTeardown
    /\ UNCHANGED <<now, ls, route, reloading, visited, editVars, homeVars,
                   showAuthOptions, isWaitingForVerification, showCheckmark,
                   error, isLoading, isLogin, step, introReq, introReqLive,
                   introReqEmail, freeEmails, pollVars, loginTimer,
                   serverVars, screenVars, histVars, convVars, wsVars>>

\* the "Login" / "Sign up" spans
ToggleLogin ==
    /\ FormShown
    /\ isLogin' = ~isLogin
    /\ step' = "email"
    /\ sent' = NoReq
    /\ teardown' = NoTeardown
    /\ UNCHANGED <<now, ls, route, reloading, visited, editVars, homeVars, showAuthOptions,
                   isWaitingForVerification, showCheckmark, error, isLoading,
                   introReq, introReqLive, formVars,
                   pollVars, loginTimer, serverVars,
                   screenVars, histVars, convVars, wsVars>>

\* a handler of the form ends without a request: only the error text changes
ShowError(msg) ==
    /\ error' = msg
    /\ sent' = NoReq
    /\ teardown' = NoTeardown
    /\ UNCHANGED <<now, ls, route, reloading, visited, editVars, homeVars, showAuthOptions,
                   isWaitingForVerification, showCheckmark, isLoading, isLogin,
                   step, introReq, introReqLive, formVars,
                   pollVars, loginTimer, serverVars,
                   screenVars, histVars, convVars, wsVars>>

\* a handler of the form sends request q
SendIntroReq(q) ==
    /\ isLoading' = TRUE
    /\ error' = ""
    /\ introReq' = q
    /\ introReqLive' = TRUE
    /\ introReqEmail' = email
    /\ UNCHANGED <<email, freeEmails>>
    /\ sent' = NoReq
    /\ teardown' = NoTeardown
    /\ UNCHANGED <<now, ls, route, reloading, visited, editVars, homeVars, showAuthOptions,
                   isWaitingForVerification, showCheckmark, isLogin, step,
                   pollVars, loginTimer, serverVars, screenVars, histVars,
                   convVars, wsVars>>

\* one poller and one completion timeout per document
PollerIdle ==
    ~pollingInterval /\ Outstanding(polls) = 0 /\ checkTimers = 0

\* handleNext, the button of the form (rendered only while not isLoading);
\* validEmail is validateEmail(email), the other inputs say what the
\* password fields hold
HandleNext(validEmail, hasPassword, strongPassword, confirmed) ==
    /\ FormShown
    /\ ~isLoading
    /\ introReq = "none"
    /\ validEmail = ValidateEmail(email)
    /\ isLogin => loginTimer = "none"
    /\ (~isLogin /\ step = "details") => PollerIdle
    /\ IF isLogin
       THEN \* handleLoginSubmit up to its fetch
            IF ~validEmail THEN ShowError("Please enter a valid email address.")
            ELSE IF ~hasPassword THEN ShowError("Please enter your password.")
            ELSE SendIntroReq("login")
       ELSE IF step = "email"
       THEN IF ~validEmail THEN ShowError("Please enter a valid email address.")
            ELSE SendIntroReq("checkEmail")
       ELSE IF ~strongPassword THEN ShowError("Password must be at least 8 characters long")
            ELSE IF ~confirmed THEN ShowError("Passwords do not match.")
            ELSE \* handleSignUpSubmit up to its fetch
                 SendIntroReq("signup")

\* a response of the form's request is handled: the state setters act only on
\* a mounted Introduction
IntroSet(live, cur, new) == IF live THEN new ELSE cur

\* handleNext after checkEmailExists: "exists", "free" or a thrown error
CheckEmailResponse(outcome) ==
    /\ introReq = "checkEmail"
    /\ introReq' = "none"
    /\ introReqEmail' = NoEmail
    /\ freeEmails' = IF introReqLive /\ outcome = "free"
                     THEN freeEmails \cup {introReqEmail} ELSE freeEmails
    /\ email' = email
    /\ introReqLive' = FALSE
    /\ isLoading' = IntroSet(introReqLive, isLoading, FALSE)
    /\ step' = IntroSet(introReqLive /\ outcome = "free", step, "details")
    /\ error' = IntroSet(introReqLive /\ outcome # "free", error,
                    IF outcome = "exists"
                    THEN "This email is already registered."
                    ELSE "Failed to check email existence.")
    /\ sent' = NoReq
    /\ teardown' = NoTeardown
    /\ UNCHANGED <<now, ls, route, reloading, visited, editVars, homeVars, showAuthOptions,
                   isWaitingForVerification, showCheckmark, isLogin, pollVars,
                   loginTimer, serverVars, screenVars, histVars, convVars,
                   wsVars>>

\* handleSignUpSubmit after a successful sign-up response: the interval is
\* created in the same continuation
SignUpOk ==
    /\ introReq = "signup"
    /\ ~registered
    /\ registered' = TRUE
    /\ introReq' = "none"
    /\ introReqEmail' = NoEmail
    /\ UNCHANGED <<email, freeEmails>>
    /\ introReqLive' = FALSE
    /\ isWaitingForVerification' = IntroSet(introReqLive, isWaitingForVerification, TRUE)
    /\ showAuthOptions' = IntroSet(introReqLive, showAuthOptions, FALSE)
    /\ isLoading' = IntroSet(introReqLive, isLoading, FALSE)
    /\ pollingInterval' = TRUE
    /\ pollerHost' = IF introReqLive THEN "intro" ELSE "gone"
    /\ sent' = NoReq
    /\ teardown' = NoTeardown
    /\ UNCHANGED <<now, ls, route, reloading, visited, editVars, homeVars, showCheckmark,
                   error, isLogin, step, polls, checkTimers, loginTimer, verified,
                   screenVars, histVars, convVars, wsVars>>

\* SignUpFail with the interval created before the response is inspected
SignUpFailPolls ==
    /\ introReq = "signup"
    /\ introReq' = "none"
    /\ introReqEmail' = NoEmail
    /\ UNCHANGED <<email, freeEmails>>
    /\ introReqLive' = FALSE
    /\ error' = IntroSet(introReqLive, error, "Signup failed. Please try again.")
    /\ isLoading' = IntroSet(introReqLive, isLoading, FALSE)
    /\ pollingInterval' = TRUE
    /\ pollerHost' = IF introReqLive THEN "intro" ELSE "gone"
    /\ sent' = NoReq
    /\ teardown' = NoTeardown
    /\ UNCHANGED <<now, ls, route, reloading, visited, editVars, homeVars, showAuthOptions,
                   isWaitingForVerification, showCheckmark, isLogin, step,
                   polls, checkTimers, loginTimer, serverVars, screenVars,
                   convVars, wsVars,
                   histVars>>

\* handleSignUpSubmit, catch: rejected sign-up or transport error
SignUpFail ==
    /\ introReq = "signup"
    /\ introReq' = "none"
    /\ introReqEmail' = NoEmail
    /\ UNCHANGED <<email, freeEmails>>
    /\ introReqLive' = FALSE
    /\ error' = IntroSet(introReqLive, error, "Signup failed. Please try again.")
    /\ isLoading' = IntroSet(introReqLive, isLoading, FALSE)
    /\ sent' = NoReq
    /\ teardown' = NoTeardown
    /\ UNCHANGED <<now, ls, route, reloading, visited, editVars, homeVars, showAuthOptions,
                   isWaitingForVerification, showCheckmark, isLogin, step,
                   pollVars, loginTimer, serverVars, screenVars, histVars,
                   convVars, wsVars>>

\* handleLoginSubmit after a successful login response
LoginOk(tok) ==
    /\ introReq = "login"
    /\ introReq' = "none"
    /\ introReqEmail' = NoEmail
    /\ email' = IntroSet(introReqLive, email, NoEmail)
    /\ freeEmails' = freeEmails
    /\ introReqLive' = FALSE
    /\ ls' = SetSession(ls, tok, now)
    /\ showCheckmark' = IntroSet(introReqLive, showCheckmark, TRUE)
    /\ loginTimer' = IF introReqLive THEN "intro" ELSE "gone"
    /\ error' = IntroSet(introReqLive, error, "")
    /\ isLoading' = IntroSet(introReqLive, isLoading, FALSE)
    /\ sent' = NoReq
    /\ teardown' = NoTeardown
    /\ UNCHANGED <<now, route, reloading, visited, editVars, homeVars, showAuthOptions,
                   isWaitingForVerification, isLogin, step, pollVars, serverVars,
                   screenVars, histVars, convVars, wsVars>>

\* LoginFail when a rejected login stores a session all the same
LoginFailStores ==
    /\ introReq = "login"
    /\ introReq' = "none"
    /\ introReqLive' = FALSE
    /\ introReqEmail' = NoEmail
    /\ ls' = SetSession(ls, "t1", now)
    /\ error' = IntroSet(introReqLive, error, "Login failed. Please try again.")
    /\ isLoading' = IntroSet(introReqLive, isLoading, FALSE)
    /\ sent' = NoReq
    /\ teardown' = NoTeardown
    /\ UNCHANGED <<now, route, reloading, visited, editVars, homeVars,
                   showAuthOptions, isWaitingForVerification, showCheckmark,
                   isLogin, step, email, freeEmails, pollVars, loginTimer,
                   serverVars, screenVars, histVars, convVars, wsVars>>

\* handleLoginSubmit, catch: bad credentials or transport error
LoginFail ==
    /\ introReq = "login"
    /\ introReq' = "none"
    /\ introReqEmail' = NoEmail
    /\ UNCHANGED <<email, freeEmails>>
    /\ introReqLive' = FALSE
    /\ error' = IntroSet(introReqLive, error, "Login failed. Please try again.")
    /\ isLoading' = IntroSet(introReqLive, isLoading, FALSE)
    /\ sent' = NoReq
    /\ teardown' = NoTeardown
    /\ UNCHANGED <<now, ls, route, reloading, visited, editVars, homeVars, showAuthOptions,
                   isWaitingForVerification, showCheckmark, isLogin, step,
                   pollVars, loginTimer, serverVars, screenVars, histVars,
                   convVars, wsVars>>

\* HomePage's onComplete followed by window.location.reload(), called from a
\* timeout of the Introduction instance whose host state is h ("intro": it is
\* mounted, "home": its HomePage is mounted, "gone": neither):
\* setIntroComplete(true), which unmounts Introduction, and the state setters
\* of fetchUserProjects act only on a mounted HomePage; the request of
\* fetchUserProjects is sent anyway
OnCompleteAndReload(h) ==
    /\ introComplete' = IF h \in {"intro", "home"} THEN TRUE ELSE introComplete
    /\ listInflight' = IF h \in {"intro", "home"} THEN TRUE ELSE listInflight
    /\ sent' = Req("list", ls, now)
    /\ teardown' = NoTeardown
    /\ reloading' = TRUE
    /\ IF h \in {"intro", "home"}
       THEN IntroInitial /\ introReqLive' = FALSE
       ELSE UNCHANGED <<showAuthOptions, isWaitingForVerification, showCheckmark,
                        error, isLoading, isLogin, step, introReqLive,
                        email, freeEmails>>

\* handleLoginSubmit: the 1500 ms timeout
LoginTimerFire ==
    /\ loginTimer # "none"
    /\ loginTimer' = "none"
    /\ OnCompleteAndReload(loginTimer)
    /\ pollerHost' = IF pollerHost = "intro" THEN "home" ELSE pollerHost
    /\ UNCHANGED <<now, ls, route, visited, editVars, expiryTimer, navTimer, projects,
                   introReq, introReqEmail, pollingInterval, polls, checkTimers, serverVars,
                   screenVars, histVars, convVars, wsVars>>

\* ------------------------------------------------------ verification poller
\* the user follows the link of the verification mail
VerifyEmail ==
    /\ registered /\ ~verified
    /\ verified' = TRUE
    /\ sent' = NoReq
    /\ teardown' = NoTeardown
    /\ UNCHANGED <<now, ls, route, reloading, visited, editVars, homeVars, introVars,
                   pollVars, loginTimer, registered, screenVars, histVars,
                   convVars, wsVars>>

PollFrame ==
    /\ sent' = NoReq
    /\ teardown' = NoTeardown
    /\ UNCHANGED <<now, ls, route, reloading, visited, editVars, homeVars, introVars,
                   loginTimer, serverVars, screenVars, convVars, wsVars>>

\* setInterval callback: pollVerificationStatus sends a login request
PollTick ==
    /\ pollingInterval
    /\ Outstanding(polls) < MaxInflight
    /\ polls' = [polls EXCEPT !.pending = @ + 1]
    /\ UNCHANGED <<pollingInterval, pollerHost, checkTimers, verifiedCount,
                   completeCount, pollFailures>>
    /\ PollFrame

\* the server answers a poll login: accepted iff the email is verified
ServerHandlePoll ==
    /\ polls.pending > 0
    /\ polls' = IF verified
                THEN [polls EXCEPT !.pending = @ - 1, !.ok = @ + 1]
                ELSE [polls EXCEPT !.pending = @ - 1, !.rej = @ + 1]
    /\ UNCHANGED <<pollingInterval, pollerHost, checkTimers, verifiedCount,
                   completeCount, pollFailures>>
    /\ PollFrame

\* pollVerificationStatus: loginResponse.ok
PollOk ==
    /\ polls.ok > 0
    /\ polls' = [polls EXCEPT !.ok = @ - 1]
    /\ pollingInterval' = FALSE
    /\ showCheckmark' = IntroSet(pollerHost = "intro", showCheckmark, TRUE)
    /\ checkTimers' = checkTimers + 1
    /\ verifiedCount' = verifiedCount + 1
    /\ sent' = NoReq
    /\ teardown' = NoTeardown
    /\ UNCHANGED <<now, ls, route, reloading, visited, editVars, homeVars, showAuthOptions,
                   isWaitingForVerification, error, isLoading, isLogin, step,
                   introReq, introReqLive, formVars,
                   pollerHost, loginTimer, serverVars,
                   screenVars, convVars, wsVars, completeCount, pollFailures>>

Bump(n) == IF n < MaxFailures THEN n + 1 ELSE n

\* PollRejected with a failed attempt ending the loop
PollRejectedStops ==
    /\ polls.rej > 0
    /\ polls' = [polls EXCEPT !.rej = @ - 1]
    /\ pollFailures' = Bump(pollFailures)
    /\ pollingInterval' = FALSE
    /\ UNCHANGED <<pollerHost, checkTimers, verifiedCount, completeCount>>
    /\ PollFrame

\* pollVerificationStatus: a response that is not ok
PollRejected ==
    /\ polls.rej > 0
    /\ polls' = [polls EXCEPT !.rej = @ - 1]
    /\ pollFailures' = Bump(pollFailures)
    /\ UNCHANGED <<pollingInterval, pollerHost, checkTimers, verifiedCount,
                   completeCount>>
    /\ PollFrame

\* pollVerificationStatus, catch: the fetch of an outstanding request throws
PollTransportError(k) ==
    /\ polls[k] > 0
    /\ polls' = [polls EXCEPT ![k] = @ - 1]
    /\ pollFailures' = Bump(pollFailures)
    /\ UNCHANGED <<pollingInterval, pollerHost, checkTimers, verifiedCount,
                   completeCount>>
    /\ PollFrame

\* pollVerificationStatus: the 1500 ms timeout
PollCheckTimerFire ==
    /\ checkTimers > 0
    /\ checkTimers' = checkTimers - 1
    /\ completeCount' = completeCount + 1
    /\ OnCompleteAndReload(pollerHost)
    /\ pollerHost' = IF pollerHost = "intro" THEN "home" ELSE pollerHost
    /\ loginTimer' = IF loginTimer = "intro" /\ pollerHost \in {"intro", "home"}
                     THEN "home" ELSE loginTimer
    /\ UNCHANGED <<now, ls, route, visited, editVars, expiryTimer, navTimer, projects,
                   introReq, introReqEmail, pollingInterval, polls, serverVars, screenVars,
                   convVars, wsVars,
                   verifiedCount, pollFailures>>

\* ------------------------------------------- Project and ProjectPage
\* String.prototype.trim on the inputs of the model
Trim(v) == IF v = " " THEN "" ELSE v

\* Project: onChange of the input
SetUserInput(v) ==
    /\ Interactive
    /\ route = "project"
    /\ v # userInput
    /\ userInput' = v
    /\ sent' = NoReq
    /\ teardown' = NoTeardown
    /\ UNCHANGED <<now, ls, route, reloading, visited, editVars, homeVars, introVars,
                   pollVars, loginTimer, serverVars, screenVars, histVars,
                   userPrompt, showWelcome, schema, conversationId, showSchema,
                   displayTimers, wsVars>>

\* Project: disabled attribute of the submit button
SubmitDisabled == Trim(userInput) = "" \/ projLoading

\* Project: the body handleSubmit sends
GenerateBody ==
    [project_description |-> userInput,
     conversation_id |-> conversationId,
     user_feedback |-> IF schema # NoSchema THEN userInput ELSE Null]

\* Project: handleSubmit up to the fetch: reads the token, sends
\* generate-schema
HandleSubmit ==
    /\ Interactive
    /\ route = "project" /\ ~SubmitDisabled
    /\ Trim(userInput) # ""
    /\ genInflight < MaxGen
    /\ showWelcome' = FALSE
    /\ userPrompt' = userInput
    /\ projLoading' = TRUE
    /\ showSchema' = FALSE
    /\ genInflight' = genInflight + 1
    /\ sent' = [Req("generate", ls, now) EXCEPT !.body = GenerateBody]
    /\ teardown' = NoTeardown
    /\ UNCHANGED <<now, ls, route, reloading, visited, editVars, homeVars, introVars,
                   pollVars, loginTimer, serverVars, pageState, updatesInflight,
                   histVars, userInput, schema, conversationId, displayTimers,
                   wsVars>>

\* the ProjectSchema bodies of the model (conversation_id is optional)
Responses ==
    [tables : TableLists, conversation_id : ConversationIds \cup {Null}]

\* how the exchange of a generate-schema request ends: "ok" (2xx with a
\* ProjectSchema), "rejected" (not ok), "transport" (fetch rejects),
\* "unparsable" (2xx whose body json() cannot parse)
Outcomes == {"ok", "rejected", "transport", "unparsable"}

\* ResponseSchema when the tables of a turn are appended to the earlier ones
ResponseSchemaMerges(o, data, cur) ==
    IF o = "ok"
    THEN SomeSchema([data EXCEPT !.tables =
                        (IF cur = NoSchema THEN <<>> ELSE cur[1].tables)
                        \o data.tables])
    ELSE NoSchema

\* handleSubmit after the response: the schema it leaves
\* (setSchema(data) in try, setSchema(null) in catch)
ResponseSchema(o, data, cur) ==
    IF o = "ok" THEN SomeSchema(data) ELSE NoSchema

\* ResponseConversationId when a failed call forgets the conversation
ResponseConversationIdForgets(o, data, cur) ==
    IF o = "ok"
    THEN IF data.conversation_id \notin {Null, ""}
         THEN data.conversation_id ELSE cur
    ELSE Null

\* handleSubmit after the response: the conversationId it leaves
\* (if (data.conversation_id) setConversationId(data.conversation_id))
ResponseConversationId(o, data, cur) ==
    IF o = "ok" /\ data.conversation_id \notin {Null, ""}
    THEN data.conversation_id ELSE cur

\* ResponseLoading when only a successful call clears the loading flag
ResponseLoadingOnSuccess(o, cur) == IF o = "ok" THEN FALSE ELSE cur

\* handleSubmit after the response: the isLoading it leaves
\* (setIsLoading(true) in try, then setIsLoading(false) in finally)
ResponseLoading(o, cur) == FALSE

\* Project: handleSubmit after the response
GenerateResponse(o, data) ==
    /\ genInflight > 0
    /\ o = "ok" => displayTimers < MaxGen
    /\ genInflight' = genInflight - 1
    /\ schema' = ResponseSchema(o, data, schema)
    /\ conversationId' = ResponseConversationId(o, data, conversationId)
    /\ displayTimers' = IF o = "ok" THEN displayTimers + 1 ELSE displayTimers
    /\ projLoading' = ResponseLoading(o, projLoading)
    /\ userInput' = ""
    /\ sent' = NoReq
    /\ teardown' = NoTeardown
    /\ UNCHANGED <<now, ls, route, reloading, visited, editVars, homeVars, introVars,
                   pollVars, loginTimer, serverVars, pageState, updatesInflight,
                   histVars, userPrompt, showWelcome, showSchema, wsVars>>

\* Project: the 1000 ms timeout of a successful turn
DisplayTimerFire ==
    /\ displayTimers > 0
    /\ displayTimers' = displayTimers - 1
    /\ projLoading' = FALSE
    /\ showSchema' = TRUE
    /\ sent' = NoReq
    /\ teardown' = NoTeardown
    /\ UNCHANGED <<now, ls, route, reloading, visited, editVars, homeVars, introVars,
                   pollVars, loginTimer, serverVars, genInflight, pageState,
                   updatesInflight, histVars, userInput, userPrompt,
                   showWelcome, schema, conversationId, wsVars>>

\* Project: handleImageClick: navigate("/new-project") keeps the displayed
\* route, window.location.reload() follows
ProjectHandleImageClick ==
    /\ Interactive
    /\ route = "project" /\ showSchema
    /\ reloading' = TRUE
    /\ sent' = NoReq
    /\ teardown' = NoTeardown
    /\ UNCHANGED <<now, ls, route, visited, editVars, homeVars, introVars, pollVars,
                   loginTimer, serverVars, screenVars, histVars, convVars,
                   wsVars>>

\* ProjectPage: fetchProject after the response for project p (isLoading
\* is cleared; error, once set, is never cleared)
FetchProjectResponse(p, ok) ==
    /\ p \in fetches
    /\ fetches' = fetches \ {p}
    /\ pageState' = IF ok /\ pageState # "error" THEN "loaded" ELSE "error"
    /\ project' = IF ok THEN p ELSE project
    /\ updatedSchemas' = IF ok THEN ServerSchemas(p) ELSE updatedSchemas
    /\ sent' = NoReq
    /\ teardown' = NoTeardown
    /\ UNCHANGED <<now, ls, route, reloading, visited, projectId,
                   visitedProjects, editing, editedSchemas, unsent, homeVars,
                   introVars, pollVars, loginTimer, serverVars, genInflight,
                   projLoading, updatesInflight, histVars, convVars, wsVars>>

\* ProjectPage shows the schemas (not "Loading...", not the error)
SchemasShown == route = "projectPage" /\ pageState = "loaded"

\* positions of the schemas in a project's list and of the fields in a
\* schema's list (0: the schema itself), of ServerSchemas
SchemaPositions == 1..2
FieldPositions == 0..2
Attributes == {"name", "description", "type"}

\* attribute attr of the j-th field of schema sc (j = 0: of sc) has a pencil
\* (the pencils of a field show while the pointer is over the field)
HasPencil(sc, j, attr) ==
    IF j = 0
    THEN attr = "name" \/ (attr = "description" /\ sc.description # <<"">>)
    ELSE j \in 1..Len(sc.fields) /\ attr \in {"name", "type"}

\* the path and the value handleEdit is called with from that pencil
EditTarget(sc, j, attr) ==
    IF j = 0 THEN [field |-> <<attr>>, value |-> sc[attr]]
    ELSE [field |-> <<attr>> \o sc.fields[j].name,
          value |-> sc.fields[j][attr]]

EditTargets(sc) ==
    {EditTarget(sc, j, attr) :
        <<j, attr>> \in {x \in FieldPositions \X Attributes :
                            HasPencil(sc, x[1], x[2])}}

\* ProjectPage: handleEdit, from the pencil of attribute attr of the j-th
\* field of the i-th schema (an input that is open loses the focus, and
\* saves, before the click)
HandleEdit(i, j, attr) ==
    /\ Interactive
    /\ SchemasShown
    /\ ~editing.open
    /\ i \in 1..Len(updatedSchemas)
    /\ HasPencil(updatedSchemas[i], j, attr)
    /\ editing' =
          [open |-> TRUE, schemaId |-> updatedSchemas[i].id,
           field |-> EditTarget(updatedSchemas[i], j, attr).field,
           value |-> EditTarget(updatedSchemas[i], j, attr).value,
           oldValue |-> EditTarget(updatedSchemas[i], j, attr).value]
    /\ sent' = NoReq
    /\ teardown' = NoTeardown
    /\ UNCHANGED <<now, ls, route, reloading, visited, projectId,
                   visitedProjects, fetches, project, updatedSchemas,
                   editedSchemas, unsent, homeVars, introVars, pollVars,
                   loginTimer, serverVars, screenVars, histVars, convVars,
                   wsVars>>

\* the input of the open edit is rendered
InputShown ==
    /\ SchemasShown
    /\ editing.open
    /\ \E i \in 1..Len(updatedSchemas) :
          /\ updatedSchemas[i].id = editing.schemaId
          /\ \E t \in EditTargets(updatedSchemas[i]) : t.field = editing.field

\* ProjectPage: onChange of the input of the open edit
SetEditingValue(v) ==
    /\ Interactive
    /\ InputShown
    /\ v # editing.value
    /\ editing' = [editing EXCEPT !.value = v]
    /\ sent' = NoReq
    /\ teardown' = NoTeardown
    /\ UNCHANGED <<now, ls, route, reloading, visited, projectId,
                   visitedProjects, fetches, project, updatedSchemas,
                   editedSchemas, unsent, homeVars, introVars, pollVars,
                   loginTimer,
                   serverVars, screenVars, histVars, convVars, wsVars>>

\* !newValue.trim()
Blank(v) == v \in {<<"">>, <<" ">>}

\* SaveKind when handleSave has no early return on a blank value
SaveKindKeepsBlank(e) ==
    IF e.open /\ e.value = e.oldValue THEN "same" ELSE "applied"

\* handleSave: the branch taken
SaveKind(e) ==
    IF Blank(e.value) THEN "blank"
    ELSE IF e.open /\ e.value = e.oldValue THEN "same"
    ELSE "applied"

SaveAppliesUncompared(e) == ~Blank(e.value)

\* handleSave: neither early return is taken
SaveApplies(e) == SaveKind(e) = "applied"

\* handleSave: the map over schema.fields; field.split("-")[1] names the
\* fields to change, field.split("-")[0] the attribute
SaveField(f, field, newValue) ==
    IF Len(field) >= 2 /\ f.name = <<field[2]>>
    THEN [f EXCEPT ![field[1]] = newValue] ELSE f

\* handleSave: the map over updatedSchemas (schema_type, the third schema
\* attribute of the source, has no pencil and is not kept)
SaveSchema(sc, schemaId, field, newValue) ==
    IF sc.id # schemaId THEN sc
    ELSE IF field \in {<<"name">>, <<"description">>}
    THEN [sc EXCEPT ![field[1]] = newValue]
    ELSE [sc EXCEPT !.fields =
             [j \in 1..Len(sc.fields) |->
                 SaveField(sc.fields[j], field, newValue)]]

SaveSchemas(us, schemaId, field, newValue) ==
    [i \in 1..Len(us) |-> SaveSchema(us[i], schemaId, field, newValue)]

\* handleSave: the updatedSchemas it leaves
SavedSchemas(us, e) ==
    IF SaveApplies(e) THEN SaveSchemas(us, e.schemaId, e.field, e.value)
    ELSE us

SavedEditedDropsNoOp(es, e) ==
    IF SaveApplies(e) THEN es \cup {e.schemaId} ELSE es \ {e.schemaId}

\* handleSave: the editedSchemas it leaves
SavedEdited(es, e) == IF SaveApplies(e) THEN es \cup {e.schemaId} ELSE es

\* ProjectPage: handleSave, from onBlur or Enter of the input of the open edit
HandleSave ==
    /\ route = "projectPage"
    /\ InputShown
    /\ updatedSchemas' = SavedSchemas(updatedSchemas, editing)
    /\ editedSchemas' = SavedEdited(editedSchemas, editing)
    /\ unsent' = SavedEdited(unsent, editing)
    /\ editing' = NoEditing
    /\ sent' = [NoReq EXCEPT !.save = SaveKind(editing)]
    /\ teardown' = NoTeardown
    /\ UNCHANGED <<now, ls, route, reloading, visited, projectId,
                   visitedProjects, fetches, project, homeVars, introVars,
                   pollVars, loginTimer, serverVars, screenVars, histVars,
                   convVars, wsVars>>

\* the Update button of schema k is rendered (an input that is open loses
\* the focus, and saves, before a click on the button)
UpdateShown(k) ==
    /\ SchemasShown
    /\ ~editing.open
    /\ k \in editedSchemas
    /\ \E i \in 1..Len(updatedSchemas) : updatedSchemas[i].id = k

UpdateBodyEditedOnly(us, k) == SelectSeq(us, LAMBDA sc : sc.id = k)

\* handleUpdate(k): the schemas of the request body
UpdateBody(us, k) == us

\* ProjectPage: handleUpdate(k) up to the fetch: reads the token and sends
\* update-project-schemas with the whole of updatedSchemas
HandleUpdate(k) ==
    /\ Interactive
    /\ UpdateShown(k)
    /\ UpdatesOutstanding < MaxUpdates
    /\ updatesInflight' = [updatesInflight EXCEPT ![k] = @ + 1]
    /\ sent' = [Req("update", ls, now)
                   EXCEPT !.schemas = UpdateBody(updatedSchemas, k)]
    /\ unsent' = {}
    /\ teardown' = NoTeardown
    /\ UNCHANGED <<now, ls, route, reloading, visited, projectId,
                   visitedProjects, fetches, project, updatedSchemas, editing,
                   editedSchemas, homeVars, introVars, pollVars, loginTimer,
                   serverVars, genInflight, projLoading, pageState, histVars,
                   convVars, wsVars>>

UpdatedEditedAlways(es, k, ok) == IF k # "orphan" THEN es \ {k} ELSE es

\* handleUpdate after the response: the editedSchemas it leaves
UpdatedEdited(es, k, ok) == IF ok /\ k # "orphan" THEN es \ {k} ELSE es

\* ProjectPage: handleUpdate(k) after the response: reload and removal of k
\* from editedSchemas on success, alert otherwise
UpdateResponse(k, ok) ==
    /\ k \in DOMAIN updatesInflight
    /\ updatesInflight[k] > 0
    /\ updatesInflight' = [updatesInflight EXCEPT ![k] = @ - 1]
    /\ reloading' = (reloading \/ ok)
    /\ editedSchemas' = UpdatedEdited(editedSchemas, k, ok)
    /\ sent' = [NoReq EXCEPT !.alert = ~ok]
    /\ teardown' = NoTeardown
    /\ UNCHANGED <<now, ls, route, visited, projectId, visitedProjects,
                   fetches, project, updatedSchemas, editing, unsent, homeVars,
                   introVars, pollVars, loginTimer, serverVars, genInflight,
                   projLoading, pageState, histVars, convVars, wsVars>>

\* ----------------------------------------------------------- useWebSocket
\* useWebSocket is imported by no screen of src/: its host is a component of
\* its own, mounted, re-rendered with another projectTitle and unmounted
\* independently of the router.
\*
\* the tables of push messages, each with its fields
PushedTable(n) ==
    [name |-> n,
     fields |-> IF n = "users" THEN <<"id", "email">>
                ELSE IF n = "orders" THEN <<"id">>
                ELSE <<"sku", "id">>]

\* a schema entry of a push message: schema_definition.tables may be missing
Entries ==
    {[hasTables |-> TRUE, tables |-> <<PushedTable("users")>>],
     [hasTables |-> TRUE,
      tables |-> <<PushedTable("orders"), PushedTable("items")>>],
     [hasTables |-> FALSE, tables |-> <<>>]}

\* JSON.parse(event.data): null, or an array of at most two schema entries
Payloads ==
    {[isNull |-> TRUE, entries |-> <<>>]} \cup
    {[isNull |-> FALSE, entries |-> e] :
        e \in {<<>>} \cup {<<x>> : x \in Entries}
              \cup {<<x, y>> : x, y \in Entries}}

TablesOrEmptyFieldsReversed(e) ==
    IF e.hasTables
    THEN [i \in 1..Len(e.tables) |->
             [e.tables[i] EXCEPT !.fields =
                 [j \in 1..Len(@) |-> @[Len(@) + 1 - j]]]]
    ELSE <<>>

\* schema.schema_definition.tables || []
TablesOrEmpty(e) == IF e.hasTables THEN e.tables ELSE <<>>

\* data.flatMap(schema => schema.schema_definition.tables || [])
RECURSIVE FlatMap(_)
FlatMap(data) ==
    IF data = <<>> THEN <<>>
    ELSE TablesOrEmpty(Head(data)) \o FlatMap(Tail(data))

\* OnMessage without the guard on the length of the payload
OnMessageUnguarded(cur, p) == IF p.isNull THEN cur ELSE FlatMap(p.entries)

\* socket.onmessage: the tables state it leaves
OnMessage(cur, p) ==
    IF ~p.isNull /\ Len(p.entries) > 0 THEN FlatMap(p.entries) ELSE cur

\* new WebSocket(...) of the effect of the mounted hook instance
NewSocket(t) == [title |-> t, state |-> "connecting", live |-> TRUE]

CloseSocketLeavesOpen(k) == k

\* socket.close(): a socket that is not closed starts closing
CloseSocket(k) ==
    IF k.state \in {"connecting", "open"}
    THEN [k EXCEPT !.state = "closing"] ELSE k

\* the socket created by the latest run of the effect
Current == Len(sockets)

\* frame of the steps of useWebSocket
WsFrame ==
    /\ sent' = NoReq
    /\ teardown' = NoTeardown
    /\ UNCHANGED <<now, ls, route, reloading, visited, editVars, homeVars,
                   introVars, pollVars, loginTimer, serverVars, screenVars,
                   histVars, convVars>>

\* the host mounts: useState initial values, the effect creates the socket
WsMount(t) ==
    /\ projectTitle = "none"
    /\ Len(sockets) < MaxSockets
    /\ projectTitle' = t
    /\ tables' = <<>>
    /\ isConnected' = FALSE
    /\ lastMessage' = NoMessage
    /\ sockets' = Append(sockets, NewSocket(t))
    /\ WsFrame

\* the host re-renders with another projectTitle: the cleanup of the effect
\* closes the socket, the effect creates the next one
WsSetTitle(t) ==
    /\ projectTitle \notin {"none", t}
    /\ Len(sockets) < MaxSockets
    /\ projectTitle' = t
    /\ sockets' = Append([sockets EXCEPT ![Current] = CloseSocket(@)],
                         NewSocket(t))
    /\ UNCHANGED <<tables, isConnected, lastMessage>>
    /\ WsFrame

\* the host unmounts: the cleanup closes the socket; the setters of this
\* hook instance do nothing from now on
WsUnmount ==
    /\ projectTitle # "none"
    /\ projectTitle' = "none"
    /\ tables' = <<>>
    /\ isConnected' = FALSE
    /\ lastMessage' = NoMessage
    /\ sockets' = [i \in 1..Len(sockets) |->
                     [(IF i = Current THEN CloseSocket(sockets[i])
                       ELSE sockets[i]) EXCEPT !.live = FALSE]]
    /\ WsFrame

\* socket.onopen
SocketOpen(i) ==
    /\ i \in 1..Len(sockets)
    /\ sockets[i].state = "connecting"
    /\ sockets' = [sockets EXCEPT ![i].state = "open"]
    /\ isConnected' = IF sockets[i].live THEN TRUE ELSE isConnected
    /\ UNCHANGED <<projectTitle, tables, lastMessage>>
    /\ WsFrame

\* socket.onmessage (message events are delivered to open sockets only)
SocketMessage(i, p) ==
    /\ i \in 1..Len(sockets)
    /\ sockets[i].state = "open"
    /\ tables' = IF sockets[i].live THEN OnMessage(tables, p) ELSE tables
    /\ lastMessage' = IF sockets[i].live THEN [seen |-> TRUE, data |-> p]
                       ELSE lastMessage
    /\ UNCHANGED <<projectTitle, isConnected, sockets>>
    /\ WsFrame

\* socket.onclose: the connection failed, the server closed it, or the
\* closing handshake started by socket.close() ended (socket.onerror, which
\* may precede it, only logs)
SocketClose(i) ==
    /\ i \in 1..Len(sockets)
    /\ sockets[i].state # "closed"
    /\ sockets' = [sockets EXCEPT ![i].state = "closed"]
    /\ isConnected' = IF sockets[i].live THEN FALSE ELSE isConnected
    /\ UNCHANGED <<projectTitle, tables, lastMessage>>
    /\ WsFrame

\* ------------------------------------------------------------------- Next
Next ==
    \/ Tick
    \/ \E r \in Routes : PageLoad(r)
    \/ \E r \in Routes : HistoryNavigate(r)
    \/ \E p \in ProjectIds : HistoryNavigateProject(p)
    \/ HandleLogoClick
    \/ HandleImageClick
    \/ NavTimerFire
    \/ ProjectClick
    \/ \E b \in BOOLEAN : UserProjectsOk(b)
    \/ UserProjectsFail
    \/ ExpiryTimerFire
    \/ \E v \in Emails : SetEmail(v)
    \/ ToggleLogin
    \/ \E e, p, w, c \in BOOLEAN : HandleNext(e, p, w, c)
    \/ \E o \in {"exists", "free", "error"} : CheckEmailResponse(o)
    \/ SignUpOk
    \/ SignUpFail
    \/ \E tok \in Tokens : LoginOk(tok)
    \/ LoginFail
    \/ LoginTimerFire
    \/ VerifyEmail
    \/ PollTick
    \/ ServerHandlePoll
    \/ PollOk
    \/ PollRejected
    \/ \E k \in {"pending", "ok", "rej"} : PollTransportError(k)
    \/ PollCheckTimerFire
    \/ \E v \in Inputs : SetUserInput(v)
    \/ HandleSubmit
    \/ \E o \in Outcomes, d \in Responses : GenerateResponse(o, d)
    \/ DisplayTimerFire
    \/ ProjectHandleImageClick
    \/ \E p \in ProjectIds, ok \in BOOLEAN : FetchProjectResponse(p, ok)
    \/ \E i \in SchemaPositions, j \in FieldPositions, attr \in Attributes :
          HandleEdit(i, j, attr)
    \/ \E v \in Typed : SetEditingValue(v)
    \/ HandleSave
    \/ \E k \in SchemaIds : HandleUpdate(k)
    \/ \E k \in DOMAIN NoUpdates, ok \in BOOLEAN : UpdateResponse(k, ok)
    \/ \E t \in Titles : WsMount(t)
    \/ \E t \in Titles : WsSetTitle(t)
    \/ WsUnmount
    \/ \E i \in 1..MaxSockets : SocketOpen(i)
    \/ \E i \in 1..MaxSockets, p \in Payloads : SocketMessage(i, p)
    \/ \E i \in 1..MaxSockets : SocketClose(i)

Spec == Init /\ [][Next]_vars

\* the registration flow and the poller, at a fixed clock reading, on the
\* routes "home" and "project"
PollNext ==
    \/ \E r \in {"home", "project"} : PageLoad(r)
    \/ \E r \in Routes : HistoryNavigate(r)
    \/ HandleLogoClick
    \/ \E b \in BOOLEAN : UserProjectsOk(b)
    \/ UserProjectsFail
    \/ SetEmail(UserEmail)
    \/ ToggleLogin
    \/ \E e, p, w, c \in BOOLEAN : HandleNext(e, p, w, c)
    \/ \E o \in {"exists", "free", "error"} : CheckEmailResponse(o)
    \/ SignUpOk
    \/ SignUpFail
    \/ \E tok \in Tokens : LoginOk(tok)
    \/ LoginFail
    \/ LoginTimerFire
    \/ VerifyEmail
    \/ PollTick
    \/ ServerHandlePoll
    \/ PollOk
    \/ PollRejected
    \/ \E k \in {"pending", "ok", "rej"} : PollTransportError(k)
    \/ PollCheckTimerFire

PollSpec == Init /\ [][PollNext]_vars

\* the session lifecycle on all screens, with a server that accepts no
\* sign-up (no poller is ever started) and an unreachable generation service,
\* and a user who edits nothing but the name of the first schema and waits
\* for the response of one commit before the next
SessionNext ==
    \/ Tick
    \/ \E r \in Routes : PageLoad(r)
    \/ \E r \in Routes : HistoryNavigate(r)
    \/ HandleLogoClick
    \/ HandleImageClick
    \/ NavTimerFire
    \/ ProjectClick
    \/ \E b \in BOOLEAN : UserProjectsOk(b)
    \/ UserProjectsFail
    \/ ExpiryTimerFire
    \/ SetEmail(UserEmail)
    \/ ToggleLogin
    \/ \E e, p, w, c \in BOOLEAN : HandleNext(e, p, w, c)
    \/ \E o \in {"exists", "free", "error"} : CheckEmailResponse(o)
    \/ SignUpFail
    \/ \E tok \in Tokens : LoginOk(tok)
    \/ LoginFail
    \/ LoginTimerFire
    \/ SetUserInput("a")
    \/ HandleSubmit
    \/ \E d \in Responses : GenerateResponse("transport", d)
    \/ \E p \in ProjectIds, ok \in BOOLEAN : FetchProjectResponse(p, ok)
    \/ HandleEdit(1, 0, "name")
    \/ SetEditingValue(<<"v">>)
    \/ HandleSave
    \/ \E k \in SchemaIds : UpdatesOutstanding = 0 /\ HandleUpdate(k)
    \/ \E k \in DOMAIN NoUpdates, ok \in BOOLEAN : UpdateResponse(k, ok)

SessionSpec == Init /\ [][SessionNext]_vars

\* the conversation of the Project screen, at a fixed clock reading
ConvNext ==
    \/ \E r \in {"home", "project"} : PageLoad(r)
    \/ \E r \in Routes : HistoryNavigate(r)
    \/ HandleLogoClick
    \/ \E v \in Inputs : SetUserInput(v)
    \/ HandleSubmit
    \/ \E o \in Outcomes, d \in Responses : GenerateResponse(o, d)
    \/ DisplayTimerFire
    \/ ProjectHandleImageClick

ConvSpec == Init /\ [][ConvNext]_vars

\* the conversation when every exchange ends (fetch resolves or rejects) and
\* every timeout fires
ConvFairSpec ==
    /\ ConvSpec
    /\ WF_vars(\E o \in Outcomes, d \in Responses : GenerateResponse(o, d))
    /\ WF_vars(DisplayTimerFire)

\* the push subscription of useWebSocket alone
SocketNext ==
    \/ \E t \in Titles : WsMount(t)
    \/ \E t \in Titles : WsSetTitle(t)
    \/ WsUnmount
    \/ \E i \in 1..MaxSockets : SocketOpen(i)
    \/ \E i \in 1..MaxSockets, p \in Payloads : SocketMessage(i, p)
    \/ \E i \in 1..MaxSockets : SocketClose(i)

SocketSpec == Init /\ [][SocketNext]_vars

\* the edit buffer of ProjectPage, at a fixed clock reading, in the browser
\* of a logged-in user who opens the page by its address and may leave it
\* for HomePage
EditInit ==
    /\ Init
    /\ ls.username = "user"
    /\ ls.token_expiry = ToString(StartTime + 1)

EditNext ==
    \/ PageLoad("projectPage")
    \/ HandleLogoClick
    \/ \E p \in ProjectIds, ok \in BOOLEAN : FetchProjectResponse(p, ok)
    \/ \E i \in SchemaPositions, j \in FieldPositions, attr \in Attributes :
          HandleEdit(i, j, attr)
    \/ \E v \in Typed : SetEditingValue(v)
    \/ HandleSave
    \/ \E k \in SchemaIds : HandleUpdate(k)
    \/ \E k \in DOMAIN NoUpdates, ok \in BOOLEAN : UpdateResponse(k, ok)

EditSpec == EditInit /\ [][EditNext]_vars

\* the remote calls a user starts from the forms and buttons of the three
\* screens, with a server that accepts no login and no sign-up
CallNext ==
    \/ \E r \in Routes : PageLoad(r)
    \/ \E v \in Emails : SetEmail(v)
    \/ ToggleLogin
    \/ \E pw, cf \in Passwords :
          HandleNext(ValidateEmail(email), pw # NoPassword,
                     ValidatePassword(pw), pw = cf)
    \/ \E o \in {"exists", "free", "error"} : CheckEmailResponse(o)
    \/ SignUpFail
    \/ LoginFail
    \/ \E v \in Inputs : SetUserInput(v)
    \/ HandleSubmit
    \/ \E o \in Outcomes, d \in Responses : GenerateResponse(o, d)
    \/ DisplayTimerFire
    \/ \E p \in ProjectIds : FetchProjectResponse(p, TRUE)
    \/ HandleEdit(1, 0, "name")
    \/ SetEditingValue(<<"v">>)
    \/ HandleSave
    \/ \E k \in SchemaIds : HandleUpdate(k)
    \/ \E k \in DOMAIN NoUpdates, ok \in BOOLEAN : UpdateResponse(k, ok)

CallSpec == Init /\ [][CallNext]_vars

\* ProjectPage reached from the project list of HomePage, with the history
\* of the document: a user who opens projects, goes back and forth between
\* their entries, and edits one name
SwitchNext ==
    \/ PageLoad("home")
    \/ UserProjectsOk(TRUE)
    \/ ProjectClick
    \/ HandleLogoClick
    \/ \E p \in ProjectIds : HistoryNavigateProject(p)
    \/ \E p \in ProjectIds, ok \in BOOLEAN : FetchProjectResponse(p, ok)
    \/ HandleEdit(1, 0, "name")
    \/ SetEditingValue(<<"v">>)
    \/ HandleSave

SwitchSpec == EditInit /\ [][SwitchNext]_vars

\* the edits of ProjectPage alone: a user who edits and saves and commits
\* nothing
SaveNext ==
    \/ PageLoad("projectPage")
    \/ \E p \in ProjectIds, ok \in BOOLEAN : FetchProjectResponse(p, ok)
    \/ \E i \in SchemaPositions, j \in FieldPositions, attr \in Attributes :
          HandleEdit(i, j, attr)
    \/ \E v \in Typed : SetEditingValue(v)
    \/ HandleSave

SaveSpec == EditInit /\ [][SaveNext]_vars

\* the edits of ProjectPage next to one push subscription: a user who types
\* one text and commits nothing, a hook that stays mounted
OrderNext ==
    \/ PageLoad("projectPage")
    \/ \E p \in ProjectIds : FetchProjectResponse(p, TRUE)
    \/ \E i \in SchemaPositions, j \in FieldPositions, attr \in Attributes :
          HandleEdit(i, j, attr)
    \/ SetEditingValue(<<"v">>)
    \/ HandleSave
    \/ \E t \in Titles : WsMount(t)
    \/ \E i \in 1..MaxSockets : SocketOpen(i)
    \/ \E i \in 1..MaxSockets, p \in Payloads : SocketMessage(i, p)

OrderSpec == EditInit /\ [][OrderNext]_vars

\* the poller under fair scheduling: the interval keeps firing and responses
\* that are not ok are handled; the transport does not fail for ever, so of
\* the attempts sent again and again one is eventually answered by the server
\* and, when accepted, handled
PollFairSpec ==
    /\ PollSpec
    /\ WF_vars(PollTick)
    /\ WF_vars(PollRejected)
    /\ SF_vars(ServerHandlePoll)
    /\ SF_vars(PollOk)

\* ================================================================ claims
SessionStored(s) ==
    /\ s.access_token # Null
    /\ s.isLoggedIn = "true"
    /\ s.token_expiry # NoExpiry

SessionAbsent(s) ==
    /\ s.access_token = Null
    /\ s.isLoggedIn = Null
    /\ s.token_expiry = NoExpiry

\* a step in which HomePage mounts and runs its two mount effects
HomeMountStep == PageLoad("home") \/ Navigate("home")

\* C1: while the completion timeout of a successful poll attempt is pending,
\* i.e. before onComplete fires, the access token, the logged-in flag and the
\* expiry timestamp are all persisted.
C1_SessionBeforeComplete == checkTimers > 0 => SessionStored(ls)

\* C2: the success branch of the poller runs at most once, the completion
\* signal fires at most once, and once it has run the interval is stopped.
C2_ExactlyOneVerified ==
    /\ verifiedCount <= 1
    /\ completeCount <= 1
    /\ verifiedCount > 0 => ~pollingInterval

\* C3: a step that tears down the screen hosting a polling poller stops the
\* interval.
C3_TeardownStopsInterval ==
    [][(pollingInterval /\ pollerHost = "intro" /\ pollerHost' = "gone")
        => ~pollingInterval']_vars

\* C4: a poller that was started stays in POLLING until an attempt succeeds
\* (or the document is unloaded), failed attempts show no error on its screen,
\* and under fair scheduling a polling poller whose email is verified
\* eventually reaches VERIFIED unless the document is unloaded.
C4_FailuresKeepPolling ==
    /\ []((pollerHost # "none" /\ verifiedCount = 0) => pollingInterval)
    /\ [](pollerHost = "intro" => error = "")
    /\ ((pollingInterval /\ verified) ~> (verifiedCount > 0 \/ pollerHost = "none"))

\* C4 witness: VERIFIED reached after at least one failed attempt
C4_Witness == pollFailures > 0 /\ verifiedCount > 0 /\ pollerHost = "intro"

\* C5: the interval is created only by the step that handles a successful
\* sign-up response, and by every such step; without an accepted sign-up the
\* poller is idle and no login attempt exists; a failed sign-up handled by a
\* mounted Introduction shows an error and creates no interval.
C5_PollingOnlyAfterSignUp ==
    /\ [](~registered => (PollerIdle /\ pollerHost = "none" /\ verifiedCount = 0))
    /\ [][/\ (~pollingInterval /\ pollingInterval')
             => (introReq = "signup" /\ ~registered /\ registered')
          /\ (~registered /\ registered') => pollingInterval'
          /\ (SignUpFail /\ introReqLive) => (error' # "" /\ ~pollingInterval')
         ]_vars

\* C5 witness: a sign-up was rejected (error shown, poller idle)
C5_Witness ==
    /\ error = "Signup failed. Please try again."
    /\ ~registered /\ ~pollingInterval /\ route = "home"

\* C6: outside anonymous mode the session check of a mounting HomePage yields
\* valid iff a token is stored and now < expiresAt.
C6_ValidIffTokenAndUnexpired ==
    [][(HomeMountStep /\ ls.username # "anonymous")
        => (introComplete' <=> (/\ ls.access_token # Null
                                /\ ls.token_expiry # NoExpiry
                                /\ now < ParseInt(ls.token_expiry)))]_vars

\* C6 witness: HomePage mounted with a stored, unexpired session outside
\* anonymous mode and shows the logged-in view
C6_Witness ==
    /\ route = "home" /\ introComplete /\ ls.username # "anonymous"
    /\ SessionStored(ls) /\ now < ParseInt(ls.token_expiry)
    /\ expiryTimer # NoTimer

\* C7: no gated request is sent with a token whose stored expiry has passed.
C7_NoRequestWithExpiredToken ==
    (sent.op # "none" /\ sent.tok # Null) => ~sent.expired

\* C8 (as claimed): when HomePage mounts with expiresAt <= now, the check
\* yields invalid and the persisted session items are removed.
C8_ExpiredCheckInvalid ==
    [][(/\ HomeMountStep
        /\ ls.token_expiry # NoExpiry
        /\ ParseInt(ls.token_expiry) <= now)
        => (~introComplete' /\ SessionAbsent(ls'))]_vars

\* C8 (amended): outside anonymous mode, when HomePage mounts with
\* expiresAt <= now the check yields invalid and all persisted items are
\* removed; a removed token comes back only through a successful login.
C8_ExpiredCheckInvalidUnlessAnonymous ==
    [][/\ (/\ HomeMountStep
           /\ ls.username # "anonymous"
           /\ ls.token_expiry # NoExpiry
           /\ ParseInt(ls.token_expiry) <= now)
          => (~introComplete' /\ ls' = EmptyStorage)
       /\ (ls.access_token = Null /\ ls'.access_token # Null)
          => introReq = "login"
      ]_vars

\* C8 witness: the session check of a mounting HomePage found an expired
\* session outside anonymous mode and removed it; the logged-out view shows
C8_Witness ==
    /\ teardown.by = "check"
    /\ teardown.before.username # "anonymous"
    /\ teardown.before.token_expiry # NoExpiry
    /\ ParseInt(teardown.before.token_expiry) <= now
    /\ route = "home" /\ ~introComplete /\ ls = EmptyStorage

\* C9: whenever the stored expiry has been reached, on whatever screen, the
\* teardown is armed: the expiry timer of the page is pending.
C9_TeardownAtExpiry ==
    (route \in Routes /\ ls.token_expiry # NoExpiry
        /\ now >= ParseInt(ls.token_expiry))
    => expiryTimer # NoTimer

\* C10: after every teardown (session check on mount, expiry timer, immediate
\* expiry on resume) none of the four persisted items is left.
C10_TeardownClearsAllFour == teardown.by # "none" => ls = EmptyStorage

\* C11: a teardown that runs right after another teardown (any two of the
\* three branches) changes neither the persisted items nor the view.
C11_TeardownIdempotent ==
    [][(teardown.by # "none" /\ teardown'.by # "none")
        => (ls' = ls /\ introComplete' = introComplete)]_vars

\* C12: the step that handles a successful login response stores the returned
\* token, the logged-in flag and expiresAt = now + ttl and only arms the
\* completion timeout; the completion signal fires only from that timeout and
\* leaves the stored items alone; the session check of a HomePage mounting at
\* the clock reading of the login finds the stored session valid and arms
\* the expiry timer.
C12_LoginEstablishesSession ==
    [][/\ \A tok \in Tokens :
            LoginOk(tok)
            => /\ ls'.access_token = tok
               /\ ls'.isLoggedIn = "true"
               /\ ls'.token_expiry # NoExpiry
               /\ ParseInt(ls'.token_expiry) = now + TTL
               /\ loginTimer' # "none"
               /\ TokenValid(ls', now)
               /\ CheckStorage(ls', now) = ls'
               /\ ExpiryStorage(ls', now) = ls'
               /\ ExpiryTimerOf(ls', now) = now + TTL
       /\ (loginTimer = "none" /\ loginTimer' # "none")
            => (\E tok \in Tokens : LoginOk(tok))
       /\ LoginTimerFire => (reloading' /\ ls' = ls)
      ]_vars

\* C12 witness: a login succeeded on the mounted Introduction: the session is
\* stored with expiresAt = now + ttl while the completion timeout is pending
C12_Witness ==
    /\ loginTimer = "intro" /\ showCheckmark /\ ~reloading
    /\ SessionStored(ls) /\ ParseInt(ls.token_expiry) = now + TTL

\* C13: with the sentinel identity "anonymous" stored, a mounting HomePage
\* shows the logged-in view and sends no list request, and a HomePage that
\* is displayed keeps showing the logged-in view.
C13_AnonymousAlwaysValid ==
    [][(ls'.username = "anonymous" /\ route' = "home")
        => /\ introComplete'
           /\ HomeMountStep => sent'.op # "list"]_vars

\* the outcomes of a failed generate-schema exchange
FailureOutcomes == Outcomes \ {"ok"}

\* C14: once stored, the conversationId is changed by no generate-schema
\* response, whatever its outcome and the id it carries, and every
\* generate-schema request carries the stored id.
C14_ConversationIdImmutable ==
    [][/\ \A o \in Outcomes, d \in Responses :
            (GenerateResponse(o, d) /\ conversationId # Null)
            => conversationId' = conversationId
       /\ HandleSubmit => sent'.body.conversation_id = conversationId
      ]_vars

\* C15: a generate-schema request carries user_feedback iff it carries a
\* conversation_id.
C15_FeedbackIffConversationId ==
    sent.op = "generate"
    => (sent.body.user_feedback # Null <=> sent.body.conversation_id # Null)

\* C16: the step that handles a successful generate-schema response leaves
\* exactly the tables of that response in the schema state.
C16_TablesReplaced ==
    [][\A d \in Responses :
          GenerateResponse("ok", d)
          => (schema' # NoSchema /\ schema'[1].tables = d.tables)]_vars

\* C16 witness: two turns of one conversation succeeded (both display
\* timeouts are still pending); the schema holds the tables of the latest
C16_Witness ==
    /\ route = "project" /\ displayTimers = 2
    /\ schema # NoSchema /\ schema[1].tables = <<"orders">>

\* C17: the step that handles a failed generate-schema exchange (not ok,
\* transport error, unparsable body) leaves the conversationId unchanged.
C17_FailureKeepsConversationId ==
    [][\A o \in FailureOutcomes, d \in Responses :
          GenerateResponse(o, d) => conversationId' = conversationId]_vars

\* C17 witness: a turn failed after an earlier turn had stored an id
C17_Witness ==
    /\ route = "project" /\ genInflight = 0
    /\ schema = NoSchema /\ conversationId # Null

\* C18: the step that handles a generate-schema exchange that ended with a
\* response that is not ok or with a transport error leaves the schema state
\* unchanged.
C18_FailureKeepsTables ==
    [][\A o \in {"rejected", "transport"}, d \in Responses :
          GenerateResponse(o, d) => schema' = schema]_vars

\* C19: every step that handles the end of a generate-schema exchange clears
\* the loading flag; the flag is set only while a request is outstanding;
\* whenever Project is displayed the input accepts text, and with non-empty
\* input and the flag cleared the submit is enabled; a set flag is eventually
\* cleared when exchanges end and timeouts fire.
C19_NoStuckState ==
    /\ [][\A o \in Outcomes, d \in Responses :
            GenerateResponse(o, d) => ~projLoading']_vars
    /\ [](genInflight = 0 => ~projLoading)
    /\ []((route = "project" /\ Interactive /\ userInput # "a")
            => ENABLED SetUserInput("a"))
    /\ []((/\ route = "project" /\ Interactive
           /\ Trim(userInput) # "" /\ ~projLoading /\ genInflight < MaxGen)
            => ENABLED HandleSubmit)
    /\ (projLoading ~> ~projLoading)

\* C19 witness: a turn succeeded, its display timeout fired, and the next
\* input is typed with the submit enabled
C19_Witness ==
    /\ route = "project" /\ Interactive
    /\ schema # NoSchema /\ showSchema /\ displayTimers = 0
    /\ genInflight = 0 /\ ~projLoading /\ userInput = "a"

\* C20: after the mounted hook handled a message whose payload is an array,
\* the working table list is the concatenation, in payload order, of the
\* tables of the entries of that message.
C20_TablesAreLastMessage ==
    (lastMessage.seen /\ ~lastMessage.data.isNull)
    => tables = FlatMap(lastMessage.data.entries)

\* a step in which the user leaves ProjectPage or loads the page again
UserDiscards == ~reloading /\ \E r \in Routes : PageLoad(r) \/ Navigate(r)

\* C21: pending edits are lost only by an explicit commit or an explicit
\* discard: a step after which a schema with a saved edit that no commit
\* request has carried is no longer in the DirtySet is a step in which the
\* user leaves or reloads the page. (A push message is handled by
\* useWebSocket, whose onmessage assigns tables only.)
C21_PendingEditsKept ==
    [][(\E k \in unsent : k \notin editedSchemas') => UserDiscards]_vars

\* the schema with id k of the list us
SchemaOf(us, k) == us[CHOOSE i \in 1..Len(us) : us[i].id = k]

\* the position in sc.fields of the field that the path "<attr>-<fieldName>"
\* names (0 for the path of an attribute of sc itself)
PathPosition(sc, field) ==
    IF Len(field) = 1 THEN 0
    ELSE CHOOSE j \in 1..Len(sc.fields) : sc.fields[j].name = Tail(field)

\* attribute attr of the j-th field of sc (j = 0: of sc)
AttributeAt(sc, j, attr) == IF j = 0 THEN sc[attr] ELSE sc.fields[j][attr]

\* C22: a save of a non-blank value that differs from the value shown when
\* editing started leaves, in the same step, the new value in the attribute
\* the edit was opened on and the id of its schema in the DirtySet (a set, so
\* at most once); this holds for every save, so also for a second edit of a
\* path.
C22_SaveSetsTarget ==
    [][(HandleSave /\ SaveApplies(editing)) =>
          /\ AttributeAt(SchemaOf(updatedSchemas', editing.schemaId),
                         PathPosition(SchemaOf(updatedSchemas,
                                               editing.schemaId),
                                      editing.field),
                         editing.field[1]) = editing.value
          /\ editing.schemaId \in editedSchemas']_vars

\* C23: a save of the value the attribute had when editing started leaves
\* the working copy and the DirtySet unchanged and closes the editing state.
C23_SameValueNoOp ==
    [][(HandleSave /\ editing.value = editing.oldValue) =>
          /\ updatedSchemas' = updatedSchemas
          /\ editedSchemas' = editedSchemas
          /\ editing' = NoEditing]_vars

\* a save of an unchanged, non-blank value has just run on a clean page
C23_Witness ==
    /\ sent.save = "same"
    /\ SchemasShown /\ ~editing.open
    /\ editedSchemas = {}

\* the schema with id k as get-project returned it for the displayed project
CommittedSchema(k) == SchemaOf(ServerSchemas(project), k)

\* C24: a save that returns a schema with a pending edit to its last
\* committed content (the edit of X to V is undone by a second edit of X, and
\* nothing else of the schema is pending) leaves the schema out of the
\* DirtySet.
C24_EditBackLeavesClean ==
    [][(/\ HandleSave
        /\ SaveApplies(editing)
        /\ SchemaOf(updatedSchemas, editing.schemaId)
              # CommittedSchema(editing.schemaId)
        /\ SchemaOf(updatedSchemas', editing.schemaId)
              = CommittedSchema(editing.schemaId))
          => editing.schemaId \notin editedSchemas']_vars

\* C25: a commit is one request whose body is the whole working list, every
\* schema of the project with the saved edits applied; the step that handles
\* its success removes the id of the schema whose button sent it and calls
\* for the reload of the page, and when the page has loaded again the
\* DirtySet has no entry at all.
C25_CommitSendsWholeList ==
    [][/\ sent'.op = "update" =>
            /\ sent'.schemas = updatedSchemas
            /\ Len(sent'.schemas) = Len(ServerSchemas(project))
            /\ UpdatesOutstanding' = UpdatesOutstanding + 1
       /\ \A k \in SchemaIds :
            UpdateResponse(k, TRUE) => reloading' /\ k \notin editedSchemas'
       /\ (reloading /\ ~reloading') => editedSchemas' = {}]_vars

\* the success of a commit sent with edits of both schemas pending has been
\* handled
C25_Witness ==
    /\ reloading /\ SchemasShown
    /\ project = "p1"
    /\ UpdatesOutstanding = 0
    /\ \A i \in 1..Len(updatedSchemas) :
          updatedSchemas[i] # ServerSchemas(project)[i]
    /\ Cardinality(editedSchemas) = 1

\* C26: the step that handles the failure of a commit leaves the working
\* copy and the DirtySet unchanged, calls for no reload and notifies the
\* user; the button of the schema is then still there for a retry, every
\* retry carries the working copy with the buffered edits, and its success
\* removes the schema's id from the DirtySet.
C26_FailedCommitKeepsEdits ==
    [][/\ \A k \in DOMAIN NoUpdates :
            UpdateResponse(k, FALSE) =>
                /\ UNCHANGED <<updatedSchemas, editedSchemas, reloading>>
                /\ sent'.alert
       /\ \A k \in SchemaIds :
            /\ HandleUpdate(k) => sent'.schemas = updatedSchemas
            /\ UpdateResponse(k, TRUE) => k \notin editedSchemas']_vars

\* the failure of the only commit has been handled: the edit is still
\* buffered and the button for the retry is shown
C26_Witness ==
    /\ sent.alert /\ ~reloading
    /\ UpdatesOutstanding = 0
    /\ editedSchemas = {"s1"} /\ UpdateShown("s1")
    /\ updatedSchemas # ServerSchemas(project)

\* a step in which a page is mounted anew, with the initial state of its
\* components
MountStep == \E r \in Routes : PageLoad(r) \/ Navigate(r)

\* C27: while ProjectPage stays mounted, a step after which an id of the
\* DirtySet is no longer in it is the step that handles the success of a
\* commit sent from the button of that schema; no opening of an edit, no
\* typing, no save and no failed commit removes an id.
C27_OnlySuccessRemoves ==
    [][\A k \in SchemaIds :
          (k \in editedSchemas /\ k \notin editedSchemas')
              => (UpdateResponse(k, TRUE) \/ MountStep)]_vars

\* the success of a commit has emptied the DirtySet of a page with edits
C27_Witness ==
    /\ reloading /\ SchemasShown
    /\ editedSchemas = {}
    /\ updatedSchemas # ServerSchemas(project)

\* C28: at most one commit request of the mounted ProjectPage is outstanding,
\* and while one is outstanding no Update button can be used.
C28_OneCommitOutstanding ==
    /\ UpdatesOutstanding - updatesInflight["orphan"] <= 1
    /\ UpdatesOutstanding - updatesInflight["orphan"] = 1
          => \A k \in SchemaIds : ~(Interactive /\ UpdateShown(k))

\* a connection whose subscription was cancelled: every socket but the one of
\* the latest run of the effect, and that one too once the host has unmounted
Cancelled(i) == i # Current \/ projectTitle = "none"

\* C29: the socket of a cancelled subscription (the host unmounted, or was
\* rendered with another projectTitle) is closing or closed, and a step that
\* changes the table list is the unmount of the host or the handling of a
\* message of the connection that is not cancelled.
C29_CancelClosesConnection ==
    /\ [](\A i \in 1..Len(sockets) :
             Cancelled(i) => sockets[i].state \in {"closing", "closed"})
    /\ [][tables' # tables =>
             \/ WsUnmount
             \/ /\ ~Cancelled(Current)
                /\ \E p \in Payloads : SocketMessage(Current, p)]_vars

\* the subscription was cancelled by a change of projectTitle after a
\* message had filled the table list, and the next connection is open
C29_Witness ==
    /\ Len(sockets) = 2
    /\ sockets[1].state = "closing" /\ sockets[2].state = "open"
    /\ projectTitle = "p2" /\ sockets[1].title = "p1"
    /\ lastMessage.seen /\ tables # << >>

\* the number of tables of the entries before the e-th
RECURSIVE TablesBefore(_, _)
TablesBefore(entries, e) ==
    IF e = 1 THEN 0
    ELSE TablesBefore(entries, e - 1)
         + (IF entries[e - 1].hasTables THEN Len(entries[e - 1].tables)
            ELSE 0)

\* C30: a save leaves the list of schemas with the same ids at the same
\* positions and every list of fields of the same length, each field where it
\* was and changed in nothing but the edited attribute; a message that
\* replaces the table list leaves the pushed tables one after the other in
\* payload order, each as it was pushed, its fields in payload order.
C30_OrderPreserved ==
    [][/\ HandleSave =>
            /\ Len(updatedSchemas') = Len(updatedSchemas)
            /\ \A i \in 1..Len(updatedSchemas) :
                  /\ updatedSchemas'[i].id = updatedSchemas[i].id
                  /\ Len(updatedSchemas'[i].fields)
                        = Len(updatedSchemas[i].fields)
                  /\ \A j \in 1..Len(updatedSchemas[i].fields) :
                        \A attr \in {"name", "type"} \ {editing.field[1]} :
                            updatedSchemas'[i].fields[j][attr]
                              = updatedSchemas[i].fields[j][attr]
       /\ \A p \in Payloads :
            (SocketMessage(Current, p) /\ tables' # tables) =>
                \A e \in 1..Len(p.entries) :
                    p.entries[e].hasTables =>
                        \A t \in 1..Len(p.entries[e].tables) :
                            /\ TablesBefore(p.entries, e) + t
                                  \in 1..Len(tables')
                            /\ tables'[TablesBefore(p.entries, e) + t]
                                  = p.entries[e].tables[t]]_vars

\* the name of the first of two fields was edited, and a message with the
\* tables of two entries was ingested
C30_Witness ==
    /\ sent.save = "applied"
    /\ Len(updatedSchemas) = 2 /\ Len(updatedSchemas[1].fields) = 2
    /\ updatedSchemas[1].fields[1].name = <<"v">>
    /\ Len(tables) = 3 /\ Len(tables[1].fields) = 2

\* C33: at most one generate-schema request of the mounted Project screen is
\* in flight, and from the moment a request is sent until its response is
\* handled the submit button stays disabled, whenever the display timer of
\* the previous successful turn fires.
C33_OneGenerateInFlight ==
    /\ genInflight <= 1
    /\ genInflight > 0 => SubmitDisabled

\* C34: a save on the path "<attr>-<fieldName>" of schema S sets attribute
\* attr of the field of S named fieldName, whatever the name holds, and
\* leaves every other field of S and every other schema as it was; a save
\* adds an id to the DirtySet only when it changed the working copy.
C34_SaveChangesNamedFieldOnly ==
    [][HandleSave =>
          /\ (SaveApplies(editing) /\ Len(editing.field) >= 2) =>
                LET sc == SchemaOf(updatedSchemas, editing.schemaId)
                    p == PathPosition(sc, editing.field)
                IN /\ Len(updatedSchemas') = Len(updatedSchemas)
                   /\ \A i \in 1..Len(updatedSchemas) :
                         updatedSchemas'[i] =
                            IF updatedSchemas[i].id # editing.schemaId
                            THEN updatedSchemas[i]
                            ELSE [sc EXCEPT !.fields[p][editing.field[1]] =
                                               editing.value]
          /\ editedSchemas' # editedSchemas
                => updatedSchemas' # updatedSchemas]_vars

\* C39: a save whose new value is empty or whitespace-only closes the editing
\* state and leaves the working copy and the DirtySet as they were; hence no
\* save leaves an empty or whitespace-only value in an attribute of the
\* working copy that did not hold it before.
C39_BlankSaveNoOp ==
    [][HandleSave =>
          /\ Blank(editing.value) =>
                /\ updatedSchemas' = updatedSchemas
                /\ editedSchemas' = editedSchemas
                /\ editing' = NoEditing
          /\ Len(updatedSchemas') = Len(updatedSchemas)
          /\ \A i \in 1..Len(updatedSchemas) :
                /\ \A attr \in {"name", "description"} :
                      Blank(updatedSchemas'[i][attr]) =>
                         updatedSchemas'[i][attr] = updatedSchemas[i][attr]
                /\ Len(updatedSchemas'[i].fields)
                      = Len(updatedSchemas[i].fields)
                /\ \A j \in 1..Len(updatedSchemas[i].fields) :
                      \A attr \in {"name", "type"} :
                         Blank(updatedSchemas'[i].fields[j][attr]) =>
                            updatedSchemas'[i].fields[j][attr]
                               = updatedSchemas[i].fields[j][attr]]_vars

\* a save of a blank value has just run while the page holds an edit made
\* earlier
C39_Witness ==
    /\ sent.save = "blank"
    /\ SchemasShown /\ ~editing.open
    /\ editedSchemas # {}
    /\ updatedSchemas # ServerSchemas(project)

\* C35: while the host is mounted the connection flag is true exactly when
\* the socket of the current projectTitle is open; in particular the close
\* event of the socket of an earlier projectTitle never leaves the flag false
\* while the current socket is open.
C35_ConnectedIffCurrentOpen ==
    projectTitle # "none" =>
       (isConnected <=> sockets[Current].state = "open")

\* C36: after the projectTitle of the subscription changes the table list
\* holds no table delivered for the previous projectTitle. The list changes
\* only by messages of the current connection, each of which replaces it
\* whole (C29, C20), so this is: the step that changes the projectTitle
\* leaves the list empty.
C36_NoTablesOfPreviousProject ==
    [][(\E t \in Titles : WsSetTitle(t)) => tables' = << >>]_vars

\* the ids of the schemas of the list us
Ids(us) == {us[i].id : i \in 1..Len(us)}

\* C37: once every get-project call has been answered and the schemas are
\* shown, the working copy holds the schemas of the projectId displayed,
\* whatever order the responses arrived in; and the DirtySet only ever holds
\* ids of schemas of the working copy.
C37_LatestProjectWins ==
    /\ (SchemasShown /\ fetches = {}) =>
          Ids(updatedSchemas) = Ids(ServerSchemas(projectId))
    /\ route = "projectPage" => editedSchemas \subseteq Ids(updatedSchemas)

\* C38: a sign-up request is sent only with an email for which a check-email
\* call of this registration flow returned exists = false; and when
\* check-email returns exists = true or fails, the flow stays on the email
\* step, an error is shown, and no sign-up request is sent.
C38_SignUpAfterFreeCheck ==
    [][/\ (introReq' = "signup" /\ introReq # "signup")
             => introReqEmail' \in freeEmails
       /\ \A o \in {"exists", "error"} :
             (CheckEmailResponse(o) /\ introReqLive) =>
                /\ step = "email" /\ step' = "email"
                /\ error' # ""
                /\ introReq' = "none"]_vars

\* the texts of Emails that are not email addresses, and the texts of
\* Passwords that are not strong passwords
Malformed == {NoEmail, <<"a", "@", "b">>}
Weak == Passwords \ {<<"a", "A", "1", "!", "a", "A", "1", "!">>}

\* C31: no request is sent for input that fails the local validation: a
\* check-email or login request never carries a malformed email; a click on
\* the button of the form with a malformed email (login, email step), an
\* empty password (login), a weak password or a differing confirmation
\* (details step) sends nothing and sets an error text; and a
\* generate-schema request never carries an empty or whitespace-only text.
C31_NoCallOnInvalidInput ==
    [][/\ (introReq' \in {"checkEmail", "login"} /\ introReq = "none")
             => introReqEmail' \notin Malformed
       /\ \A pw, cf \in Passwords :
             (/\ HandleNext(ValidateEmail(email), pw # NoPassword,
                            ValidatePassword(pw), pw = cf)
              /\ IF isLogin THEN email \in Malformed \/ pw = NoPassword
                 ELSE IF step = "email" THEN email \in Malformed
                 ELSE pw \in Weak \/ cf # pw)
             => (introReq' = "none" /\ error' # "")
       /\ sent'.op = "generate"
             => sent'.body.project_description \notin {"", " "}]_vars

\* the button was clicked with a malformed email in the field: the error is
\* shown and nothing is in flight
C31_Witness ==
    /\ FormShown /\ introReq = "none" /\ ~isLoading
    /\ email = <<"a", "@", "b">>
    /\ error = "Please enter a valid email address."

\* a step that sends one of the calls of the forms and buttons, and a step
\* that handles its rejection: check-email answers exists = true, the login
\* or the sign-up is refused, generate-schema or the commit is refused
CallSent ==
    \/ \E e, p, w, c \in BOOLEAN : HandleNext(e, p, w, c) /\ introReq' # "none"
    \/ HandleSubmit
    \/ \E k \in SchemaIds : HandleUpdate(k)
CallRejected ==
    \/ CheckEmailResponse("exists")
    \/ LoginFail
    \/ SignUpFail
    \/ \E d \in Responses : GenerateResponse("rejected", d)
    \/ \E k \in DOMAIN NoUpdates : UpdateResponse(k, FALSE)

====
